---------------------------- MODULE Spec2Model ----------------------------
(***************************************************************************)
(* Model of the battery/solar tariff replay of app/get_agile.py (cmd).     *)
(*                                                                         *)
(* Units.  Energy is an integer number of 1e-4 kWh (the precision to which *)
(* calculate_monthly_solar rounds), so 1 kWh = 10000.  Rates are whole     *)
(* pence per kWh; a cost is energy * rate.  A value produced by a Python   *)
(* division (an average) is kept as an exact fraction [n, d].              *)
(* Time.  A timestamp is a half-hour slot counted from local midnight of   *)
(* the first calendar date of the run; local time is taken to be UTC.      *)
(***************************************************************************)
EXTENDS Integers, Sequences, FiniteSets, TLC

\* ------------------------------------------------------------------------
\* Bounds of the model
\* ------------------------------------------------------------------------
\* Number of half-hour slots of the longest replayed range [from, to).
RunSlots == 50

\* ------------------------------------------------------------------------
\* Module-level tables and functions of get_agile.py
\* ------------------------------------------------------------------------
kWh == 10000

hours_of_daylight ==
    [m \in 1..12 |->
        CASE m = 1  -> 9..14
          [] m = 2  -> 8..15
          [] m = 3  -> 7..16
          [] m = 4  -> 7..18
          [] m = 5  -> 6..19
          [] m = 6  -> 6..19
          [] m = 7  -> 6..19
          [] m = 8  -> 7..18
          [] m = 9  -> 8..17
          [] m = 10 -> 8..16
          [] m = 11 -> 8..14
          [] m = 12 -> 9..14]

\* hours[0] and len(hours) of a daylight window
FirstHour(hours) == CHOOSE h \in hours : \A g \in hours : h <= g

\* kwh * weight/1000 cut off after 4 decimal places instead of rounded
TruncMilli(kwh, weight) == (kwh * weight) \div 1000

\* round(kwh * weight/1000, 4) on energies counted in 1e-4 kWh
RoundMilli(kwh, weight) ==
    (kwh \div 1000) * weight + (((kwh % 1000) * weight + 500) \div 1000)

monthly_weights == <<34, 46, 75, 108, 128, 130, 134, 120, 91, 66, 38, 30>>

calculate_monthly_solar(kwh) ==
    [m \in 1..12 |-> RoundMilli(kwh, monthly_weights[m])]

\* norm.pdf(slots, mean, std_dev) for slots = 0..n-1, mean = (n-1)/2 and
\* std_dev^2 = (n^2-1)/12, tabulated to 3 digits relative to the density at
\* the mean: round(1000 * exp(-6 (i - mean)^2 / (n^2 - 1))).
norm_pdf(n) ==
    CASE n = 12 -> <<281, 428, 598, 769, 910, 990, 990, 910, 769, 598, 428, 281>>
      [] n = 14 -> <<273, 394, 536, 686, 825, 933, 992, 992, 933, 825, 686, 536,
                     394, 273>>
      [] n = 16 -> <<266, 370, 491, 621, 750, 863, 948, 994, 994, 948, 863, 750,
                     621, 491, 370, 266>>
      [] n = 18 -> <<261, 352, 456, 570, 686, 796, 890, 959, 995, 995, 959, 890,
                     796, 686, 570, 456, 352, 261>>
      [] n = 20 -> <<257, 337, 429, 530, 635, 737, 832, 910, 967, 996, 996, 967,
                     910, 832, 737, 635, 530, 429, 337, 257>>
      [] n = 24 -> <<252, 316, 390, 471, 556, 643, 729, 810, 880, 937, 977, 997,
                     997, 977, 937, 880, 810, 729, 643, 556, 471, 390, 316, 252>>
      [] n = 28 -> <<247, 302, 363, 430, 501, 575, 650, 723, 793, 856, 910, 953,
                     983, 998, 998, 983, 953, 910, 856, 793, 723, 650, 575, 501,
                     430, 363, 302, 247>>

RECURSIVE SumSeq(_)
SumSeq(s) == IF s = <<>> THEN 0 ELSE Head(s) + SumSeq(Tail(s))

\* y_values /= np.sum(y_values); y_values *= total
calculate_daily_curve(total, hours) ==
    LET y_values == norm_pdf(2 * Cardinality(hours))
        sum      == SumSeq(y_values)
    IN  [i \in 1..Len(y_values) |-> (total * y_values[i]) \div sum]

\* calendar.monthrange(year, month)[1]
IsLeap(year) == (year % 4 = 0) /\ ((year % 100 # 0) \/ (year % 400 = 0))

DaysInMonth(year, month) ==
    IF month = 2 THEN (IF IsLeap(year) THEN 29 ELSE 28)
    ELSE IF month \in {4, 6, 9, 11} THEN 30 ELSE 31

\* The curve cache after a call of calculate_30min_solar: filled on the first
\* in-window request for the month, left alone otherwise.
curves_after(cache, monthly_solar, year, month, hour) ==
    IF hour \notin hours_of_daylight[month] \/ month \in DOMAIN cache
    THEN cache
    ELSE LET daily_solar == monthly_solar[month] \div DaysInMonth(year, month)
         IN  [k \in DOMAIN cache \cup {month} |->
                IF k = month
                THEN calculate_daily_curve(daily_solar, hours_of_daylight[month])
                ELSE cache[k]]

\* The value calculate_30min_solar returns (curve indices start at 1 here).
calculate_30min_solar(cache, monthly_solar, year, month, hour, minute) ==
    LET hours == hours_of_daylight[month]
    IN  IF hour \notin hours THEN 0
        ELSE LET curve == curves_after(cache, monthly_solar, year, month, hour)[month]
                 index == (hour - FirstHour(hours)) * 2 + (minute \div 30)
             IN  curve[index + 1]


\* ------------------------------------------------------------------------
\* Fractions (results of Python's true division) and ordered dictionaries
\* ------------------------------------------------------------------------
Frac(n, d)    == [n |-> n, d |-> d]
FracAdd(a, b) == Frac(a.n * b.d + b.n * a.d, a.d * b.d)
FracDiv(a, k) == Frac(a.n, a.d * k)
FracEq(a, b)  == a.n * b.d = b.n * a.d

\* A Python dict whose iteration order matters: a sequence of [k, v] pairs in
\* insertion order; assigning to a present key keeps its position.
DictKeys(d)      == {d[i].k : i \in 1..Len(d)}
DictIdx(d, k)    == CHOOSE i \in 1..Len(d) : d[i].k = k
DictGet(d, k)    == d[DictIdx(d, k)].v
DictPut(d, k, v) ==
    IF k \in DictKeys(d) THEN [d EXCEPT ![DictIdx(d, k)].v = v]
    ELSE Append(d, [k |-> k, v |-> v])

\* A Python dict read by key only: a function on the set of its keys
EmptyMap == [k \in {} |-> 0]
MapPut(f, k, v) == [x \in DOMAIN f \cup {k} |-> IF x = k THEN v ELSE f[x]]

\* reversed(list)
Reversed(s) == [i \in 1..Len(s) |-> s[Len(s) + 1 - i]]

\* ------------------------------------------------------------------------
\* Timestamps
\* ------------------------------------------------------------------------
NoDate == [year |-> 0, month |-> 0, day |-> 0]

NextDate(date) ==
    IF date.day < DaysInMonth(date.year, date.month)
    THEN [date EXCEPT !.day = date.day + 1]
    ELSE IF date.month < 12
         THEN [year |-> date.year, month |-> date.month + 1, day |-> 1]
         ELSE [year |-> date.year + 1, month |-> 1, day |-> 1]

RECURSIVE AddDays(_, _)
AddDays(date, k) == IF k = 0 THEN date ELSE AddDays(NextDate(date), k - 1)

\* ------------------------------------------------------------------------
\* State
\* ------------------------------------------------------------------------
VARIABLES
    cfg,                    \* values read from the configuration file and CLI
    inp,                    \* what the Octopus API holds for the requested range
    pc,                     \* position of cmd
    error,                  \* why cmd stopped early ("" while it has not)
    rate_data,              \* import rates as retrieved (newest first)
    export_rate_data,       \* export rates as retrieved (newest first)
    usage_data,             \* consumption as retrieved (newest first)
    ri,                     \* records of reversed(rate_data) processed
    ui,                     \* records of reversed(usage_data) processed
    last_date,
    flux_period_averages,
    flux_total,
    agile_daily_averages,
    agile_daily_total,
    agile_peak_averages,
    agile_peak_total,
    agile_rates,
    agile_export_rates,
    current_battery,
    curves,
    costs,
    grid_usage,
    total_consumption,
    grid_consumption,
    current_day,
    daily_grid_consumption,
    days_of_zero_grid,
    summary,                \* the low/day/peak averages printed (lines 643-645)
    monthly_totals,
    totals,
    printed,                \* report blocks written to the terminal so far
    influx,                 \* points written to the sink, one list per write
    branch_taken,           \* per processed interval, the arm of line 552 run
    finalised,              \* the [date, band] accumulators divided so far
    call,                   \* the function applied and its arguments
    result                  \* what that application returned

rateVars  == <<ri, last_date, flux_period_averages, flux_total,
               agile_daily_averages, agile_daily_total, agile_peak_averages,
               agile_peak_total, agile_rates, finalised>>
usageVars == <<ui, current_battery, curves, costs, grid_usage, total_consumption,
               grid_consumption, current_day, daily_grid_consumption,
               days_of_zero_grid, branch_taken>>
reportVars == <<summary, monthly_totals, totals>>
dataVars  == <<cfg, inp, rate_data, export_rate_data, call, result>>
vars == <<cfg, inp, pc, error, rate_data, export_rate_data, usage_data, ri, ui,
          last_date, flux_period_averages, flux_total, agile_daily_averages,
          agile_daily_total, agile_peak_averages, agile_peak_total, agile_rates,
          agile_export_rates, current_battery, curves, costs, grid_usage,
          total_consumption, grid_consumption, current_day,
          daily_grid_consumption, days_of_zero_grid, summary, monthly_totals,
          totals, printed, influx, branch_taken, finalised, call, result>>

\* dt of a timestamp: date, hour, minute in local time
DateOf(t)   == AddDays(inp.start, t \div 48)
HourOf(t)   == (t % 48) \div 2
MinuteOf(t) == 30 * (t % 2)

\* ------------------------------------------------------------------------
\* Configuration (lines 274-304) and the policies that read it
\* ------------------------------------------------------------------------
monthly_solar == calculate_monthly_solar(cfg.annual_output)

battery_charge_start_minutes ==
    cfg.battery_charge_start * 60 + cfg.battery_charge_start_minute
battery_charge_end_minutes ==
    cfg.battery_charge_end * 60 + cfg.battery_charge_end_minute

Min(a, b) == IF a <= b THEN a ELSE b

\* The discharge decision asking about summer before winter
AreWeUsingSummerFirst(month, hour, mins) ==
    LET time_minutes == (hour * 60) + mins
        wbs_mins     == (cfg.winter_battery_start * 60) + cfg.winter_battery_start_mins
    IN  IF month \in cfg.summer_months /\ cfg.summer_charge_battery = FALSE
        THEN TRUE
        ELSE IF month \in cfg.winter_months
        THEN (hour < cfg.battery_charge_start) \/ time_minutes >= wbs_mins
        ELSE hour < cfg.battery_charge_start
                \/ time_minutes >= battery_charge_end_minutes

are_we_using_the_battery(month, hour, mins) ==
    LET time_minutes == (hour * 60) + mins
        wbs_mins     == (cfg.winter_battery_start * 60) + cfg.winter_battery_start_mins
    IN  IF month \in cfg.winter_months
        THEN (hour < cfg.battery_charge_start) \/ time_minutes >= wbs_mins
        ELSE IF month \in cfg.summer_months /\ cfg.summer_charge_battery = FALSE
        THEN TRUE
        ELSE hour < cfg.battery_charge_start
                \/ time_minutes >= battery_charge_end_minutes

\* The flux rate with the low band running to the end of the 05:00 hour
FluxRateLowThroughFive(hour) ==
    IF hour >= 2 /\ hour <= 5 THEN cfg.flux_rate_low
    ELSE IF hour >= 16 /\ hour < 19 THEN cfg.flux_rate_peak
    ELSE cfg.flux_rate_day

\* Set the flux rate (lines 510-515)
FluxRate(hour) ==
    IF hour >= 2 /\ hour < 5 THEN cfg.flux_rate_low
    ELSE IF hour >= 16 /\ hour < 19 THEN cfg.flux_rate_peak
    ELSE cfg.flux_rate_day

\* The charging decision with the season left out of the window rule
NeedToChargeInAnySeason(month, current_minutes, battery, agile_rate) ==
    \/ /\ cfg.battery_max > 0
       /\ current_minutes >= battery_charge_start_minutes
       /\ current_minutes < battery_charge_end_minutes
       /\ battery < cfg.battery_max
    \/ /\ cfg.summer_charge_when_negative
       /\ month \in cfg.summer_months
       /\ agile_rate < 0

\* need_to_charge_battery (lines 539-550)
need_to_charge_battery(month, current_minutes, battery, agile_rate) ==
    \/ /\ cfg.battery_max > 0
       /\ current_minutes >= battery_charge_start_minutes
       /\ current_minutes < battery_charge_end_minutes
       /\ battery < cfg.battery_max
       /\ (cfg.summer_charge_battery \/ month \notin cfg.summer_months)
    \/ /\ cfg.summer_charge_when_negative
       /\ month \in cfg.summer_months
       /\ agile_rate < 0

\* max_battery_drain = 6.6 / 2 (line 471)
max_battery_drain == 33000

\* period_charge (lines 557-563), t being the interval's timestamp
PeriodChargeUncapped(required_charge, t) ==
    IF t < cfg.model_cutoff THEN required_charge ELSE 0

period_charge(required_charge, t) ==
    IF t < cfg.model_cutoff
    THEN Min(required_charge, cfg.inverter_limit \div 2)
    ELSE 0

\* The grid-charging branch without the post-cutoff top-up of line 576
ChargeFromGridNoTopUp(t, battery, consumption, agile_rate) ==
    LET required_charge == cfg.battery_max - battery
        pcharge         == period_charge(required_charge, t)
    IN  [branch      |-> "charge",
         consumption |-> pcharge + consumption,
         grid        |-> pcharge + consumption,
         flux_cost   |-> (pcharge + consumption) * cfg.flux_rate_low,
         agile_cost  |-> (pcharge + consumption) * agile_rate,
         export      |-> 0,
         battery     |-> battery + pcharge,
         drained     |-> 0]

\* The grid-charging branch (lines 553-576)
ChargeFromGrid(t, battery, consumption, agile_rate) ==
    LET required_charge == cfg.battery_max - battery
        pcharge         == period_charge(required_charge, t)
    IN  [branch      |-> "charge",
         consumption |-> pcharge + consumption,
         grid        |-> pcharge + consumption,
         flux_cost   |-> (pcharge + consumption) * cfg.flux_rate_low,
         agile_cost  |-> (pcharge + consumption) * agile_rate,
         export      |-> 0,
         battery     |-> IF t < cfg.model_cutoff
                         THEN battery + pcharge
                         ELSE battery + Min(required_charge, cfg.inverter_limit \div 2),
         drained     |-> 0]

\* Solar handling that stores the whole surplus, capacity or not
SolarFirstUncapped(battery, usage, solar_generated) ==
    IF solar_generated >= usage
    THEN LET excess_power == solar_generated - usage
         IN  [export  |-> IF battery + excess_power > cfg.battery_max
                          THEN battery + excess_power - cfg.battery_max
                          ELSE 0,
              battery |-> battery + excess_power,
              usage   |-> 0]
    ELSE [export |-> 0, battery |-> battery, usage |-> usage - solar_generated]

\* Handle the solar generation (lines 582-603): battery, export and the usage
\* left to account for
SolarFirst(battery, usage, solar_generated) ==
    IF solar_generated >= usage
    THEN LET excess_power == solar_generated - usage
         IN  [export  |-> IF battery + excess_power > cfg.battery_max
                          THEN battery + excess_power - cfg.battery_max
                          ELSE 0,
              battery |-> Min(battery + excess_power, cfg.battery_max),
              usage   |-> 0]
    ELSE [export |-> 0, battery |-> battery, usage |-> usage - solar_generated]

\* Battery usage without the per-interval drain limit
DischargeUncapped(battery, usage) ==
    IF (battery - cfg.battery_min) > usage
    THEN [battery |-> battery - usage, usage |-> 0]
    ELSE [battery |-> cfg.battery_min,
          usage   |-> usage - (battery - cfg.battery_min)]

\* Battery usage (lines 610-628): battery and the usage left for the grid
Discharge(battery, usage) ==
    IF (battery - cfg.battery_min) > usage
    THEN IF usage > max_battery_drain
         THEN [battery |-> battery - max_battery_drain,
               usage   |-> usage - max_battery_drain]
         ELSE [battery |-> battery - usage, usage |-> 0]
    ELSE IF (battery - cfg.battery_min) > max_battery_drain
         THEN [battery |-> battery - max_battery_drain,
               usage   |-> usage - max_battery_drain]
         ELSE [battery |-> cfg.battery_min,
               usage   |-> usage - (battery - cfg.battery_min)]

\* The non-charging branch costing the grid draw at the flux day rate in
\* every hour band
SolarBatteryGridDayRate(month, hour, minute, battery, consumption, solar_generated, flux_rate, agile_rate, export_rate) ==
    LET s == SolarFirst(battery, consumption, solar_generated)
        using_battery ==
            cfg.battery_max > 0 /\ are_we_using_the_battery(month, hour, minute)
        d == IF s.usage > 0 /\ using_battery
             THEN Discharge(s.battery, s.usage)
             ELSE [battery |-> s.battery, usage |-> s.usage]
        usage == IF d.usage > 0 THEN d.usage ELSE 0
    IN  [branch      |-> "solar",
         consumption |-> usage,
         grid        |-> usage,
         flux_cost   |-> usage * cfg.flux_rate_day,
         agile_cost  |-> usage * agile_rate - s.export * export_rate,
         export      |-> s.export,
         battery     |-> d.battery,
         drained     |-> s.battery - d.battery]

\* The non-charging branch crediting the export at the import rate
SolarBatteryGridExportAtImportRate(month, hour, minute, battery, consumption, solar_generated, flux_rate, agile_rate, export_rate) ==
    LET s == SolarFirst(battery, consumption, solar_generated)
        using_battery ==
            cfg.battery_max > 0 /\ are_we_using_the_battery(month, hour, minute)
        d == IF s.usage > 0 /\ using_battery
             THEN Discharge(s.battery, s.usage)
             ELSE [battery |-> s.battery, usage |-> s.usage]
        usage == IF d.usage > 0 THEN d.usage ELSE 0
    IN  [branch      |-> "solar",
         consumption |-> usage,
         grid        |-> usage,
         flux_cost   |-> usage * flux_rate,
         agile_cost  |-> usage * agile_rate - s.export * agile_rate,
         export      |-> s.export,
         battery     |-> d.battery,
         drained     |-> s.battery - d.battery]

\* The non-charging branch (lines 578-637)
SolarBatteryGrid(month, hour, minute, battery, consumption, solar_generated, flux_rate, agile_rate, export_rate) ==
    LET s == SolarFirst(battery, consumption, solar_generated)
        using_battery ==
            cfg.battery_max > 0 /\ are_we_using_the_battery(month, hour, minute)
        d == IF s.usage > 0 /\ using_battery
             THEN Discharge(s.battery, s.usage)
             ELSE [battery |-> s.battery, usage |-> s.usage]
        usage == IF d.usage > 0 THEN d.usage ELSE 0
    IN  [branch      |-> "solar",
         consumption |-> usage,
         grid        |-> usage,
         flux_cost   |-> usage * flux_rate,
         agile_cost  |-> usage * agile_rate - s.export * export_rate,
         export      |-> s.export,
         battery     |-> d.battery,
         drained     |-> s.battery - d.battery]

\* ------------------------------------------------------------------------
\* Inputs: configurations and API contents the run is checked over
\* ------------------------------------------------------------------------
BaseCfg ==
    [flux_rate_low |-> 17, flux_rate_day |-> 28, flux_rate_peak |-> 39,
     battery_charge_start |-> 2, battery_charge_start_minute |-> 0,
     battery_charge_end |-> 5, battery_charge_end_minute |-> 0,
     battery_max |-> 5 * kWh, inverter_limit |-> 2 * kWh, battery_min |-> 0,
     annual_output |-> 0,
     winter_months |-> {1, 2, 11, 12},
     winter_battery_start |-> 15, winter_battery_start_mins |-> 0,
     summer_months |-> {5, 6, 7, 8},
     summer_charge_battery |-> TRUE, summer_charge_when_negative |-> FALSE,
     model_cutoff |-> 1000,
     write_db |-> TRUE]

\* Three-hour blocks aligned with 02:00: 02-05, 08-11, 14-17, 20-23
InBlock(t) == ((t + 2) \div 6) % 2 = 1

\* A two-valued profile <<outside the blocks, inside the blocks>>
ProfileAt(profile, t) == IF InBlock(t) THEN profile[2] ELSE profile[1]

BaseInp ==
    [start |-> [year |-> 2024, month |-> 1, day |-> 15],
     from_slot |-> 0, to_slot |-> RunSlots,
     usage |-> <<1 * kWh, 1 * kWh>>,
     rate |-> <<20, -5>>,
     export |-> <<8, 3>>,
     import_missing |-> {}, export_missing |-> {}, no_usage |-> FALSE,
     switch |-> 0]

Batteries     == {<<0, 0>>, <<5 * kWh, 0>>, <<5 * kWh, 1 * kWh>>}
Inverters     == {2 * kWh, 8 * kWh}
AnnualOutputs == {0, 4000 * kWh}
Cutoffs       == {0, 7, 1000}
UsageProfiles == {<<0, 0>>, <<1 * kWh, 1 * kWh>>, <<4 * kWh, 0>>,
                  <<3 * (kWh \div 10), 25 * (kWh \div 10)>>}
RateProfiles  == {<<15, 9>>, <<20, -5>>}
Seasons ==
    {[month |-> 1, scb |-> TRUE, scwn |-> FALSE]}
    \cup {[month |-> 6, scb |-> b, scwn |-> n] : b \in BOOLEAN, n \in BOOLEAN}

\* Complete data, every battery/solar/season setting
EngineScenarios ==
    {[cfg |-> [BaseCfg EXCEPT !.battery_max = b[1], !.battery_min = b[2],
                              !.inverter_limit = il, !.annual_output = ao,
                              !.model_cutoff = mc,
                              !.summer_charge_battery = se.scb,
                              !.summer_charge_when_negative = se.scwn],
      inp |-> [BaseInp EXCEPT !.start.month = se.month, !.usage = u, !.rate = r]] :
        b \in Batteries, il \in Inverters, ao \in AnnualOutputs, mc \in Cutoffs,
        se \in Seasons, u \in UsageProfiles, r \in RateProfiles}

\* Incomplete data, short ranges, sink on or off
Ranges == {<<0, 12>>, <<40, RunSlots>>}
FaultScenarios ==
    {[cfg |-> [BaseCfg EXCEPT !.write_db = w, !.annual_output = ao],
      inp |-> [BaseInp EXCEPT !.from_slot = rg[1], !.to_slot = rg[2],
                              !.import_missing = im, !.export_missing = em,
                              !.no_usage = nu]] :
        w \in BOOLEAN, ao \in AnnualOutputs, rg \in Ranges, nu \in BOOLEAN,
        im \in {{}, {5, 45}, 0..RunSlots},
        em \in {{}, {3, 43}, 0..RunSlots}}

\* Runs over three dates that cross a month end or a year end
MonthEnds == {[year |-> 2024, month |-> 1, day |-> 30],
              [year |-> 2024, month |-> 12, day |-> 30]}
MonthEndScenarios ==
    {[cfg |-> [BaseCfg EXCEPT !.annual_output = ao],
      inp |-> [BaseInp EXCEPT !.start = st, !.from_slot = 40,
                              !.to_slot = 2 * RunSlots, !.usage = u,
                              !.switch = sw]] :
        ao \in AnnualOutputs, st \in MonthEnds, u \in UsageProfiles,
        sw \in {0, 70}}

\* Configuration files whose numbers are out of range: a reserve above the
\* capacity, a negative flux rate
OutOfRangeCfgs ==
    {[BaseCfg EXCEPT !.battery_min = 6 * kWh],
     [BaseCfg EXCEPT !.flux_rate_low = 0 - 1]}
OutOfRangeScenarios ==
    {[cfg |-> [c EXCEPT !.annual_output = ao],
      inp |-> [BaseInp EXCEPT !.usage = u]] :
        c \in OutOfRangeCfgs, ao \in AnnualOutputs, u \in UsageProfiles}

Scenarios ==
    EngineScenarios \cup FaultScenarios \cup MonthEndScenarios
        \cup OutOfRangeScenarios

\* retrieve_paginated_data: the API's records for [from, to), newest first
RECURSIVE Retrieved(_, _, _, _)
Retrieved(lo, hi, missing, profile) ==
    IF hi <= lo THEN <<>>
    ELSE IF (hi - 1) \in missing THEN Retrieved(lo, hi - 1, missing, profile)
    ELSE <<[start |-> hi - 1, value |-> ProfileAt(profile, hi - 1)]>>
            \o Retrieved(lo, hi - 1, missing, profile)

\* The import-rate requests asking for the later tariff from the start of
\* the range whatever the switch date
RateRequestsFromStart(from, to, switch) ==
    (IF to >= switch
     THEN <<[url |-> "agile_rate_url", period_from |-> from, period_to |-> to]>>
     ELSE <<>>)
    \o (IF from < switch
        THEN <<[url |-> "agile_rate2_url", period_from |-> from,
                period_to |-> IF to >= switch THEN switch ELSE to]>>
        ELSE <<>>)

\* The import-rate requests (lines 330-349), in the order they are made
RateRequests(from, to, switch) ==
    (IF to >= switch
     THEN <<[url |-> "agile_rate_url",
             period_from |-> IF from <= switch THEN switch ELSE from,
             period_to |-> to]>>
     ELSE <<>>)
    \o (IF from < switch
        THEN <<[url |-> "agile_rate2_url", period_from |-> from,
                period_to |-> IF to >= switch THEN switch ELSE to]>>
        ELSE <<>>)

\* rate_data.extend(...) over the requests (lines 337, 348)
RECURSIVE RetrievedAll(_, _, _)
RetrievedAll(requests, missing, profile) ==
    IF requests = <<>> THEN <<>>
    ELSE Retrieved(Head(requests).period_from, Head(requests).period_to,
                   missing, profile)
            \o RetrievedAll(Tail(requests), missing, profile)

\* No function applied yet
NoCall == [fn |-> "none"]

Zero == Frac(0, 1)
NoTotals ==
    [agile_cost |-> 0, flux_cost |-> 0, export |-> 0, previous_cost |-> 0,
     flux_total |-> 0, solar_generated |-> 0]

\* The state once the configuration is read and the rates are retrieved
\* (lines 242-369)
Setup(sc) ==
    /\ cfg = sc.cfg
    /\ inp = sc.inp
    /\ rate_data = RetrievedAll(RateRequests(sc.inp.from_slot, sc.inp.to_slot,
                                             sc.inp.switch),
                                sc.inp.import_missing, sc.inp.rate)
    /\ export_rate_data = Retrieved(sc.inp.from_slot, sc.inp.to_slot,
                                    sc.inp.export_missing, sc.inp.export)
    /\ usage_data = <<>>
    /\ error = ""
    /\ ri = 0
    /\ ui = 0
    /\ last_date = NoDate
    /\ flux_period_averages = EmptyMap
    /\ flux_total = Zero
    /\ agile_daily_averages = EmptyMap
    /\ agile_daily_total = Zero
    /\ agile_peak_averages = EmptyMap
    /\ agile_peak_total = Zero
    /\ agile_rates = EmptyMap
    /\ agile_export_rates = EmptyMap
    /\ current_battery = 0
    /\ curves = EmptyMap
    /\ costs = <<>>
    /\ grid_usage = EmptyMap
    /\ total_consumption = 0
    /\ grid_consumption = 0
    /\ current_day = 0
    /\ daily_grid_consumption = 0
    /\ days_of_zero_grid = 0
    /\ summary = <<>>
    /\ monthly_totals = <<>>
    /\ totals = NoTotals
    /\ printed = {}
    /\ influx = <<>>
    /\ branch_taken = EmptyMap
    /\ finalised = {}

Init ==
    \E sc \in Scenarios :
        /\ Setup(sc)
        /\ pc = "rates"
        /\ call = NoCall
        /\ result = NoCall

\* ------------------------------------------------------------------------
\* Processing import rates (lines 372-425), one record per step
\* ------------------------------------------------------------------------
\* Hours whose rate is added to the day-rate accumulator (lines 394, 406, 418)
InDayBand(hour) ==
    (hour >= 0 /\ hour < 2) \/ (hour >= 5 /\ hour < 16) \/ (hour >= 19 /\ hour <= 23)
InLowBand(hour)  == hour >= 2 /\ hour < 5
InPeakBand(hour) == hour >= 16 /\ hour < 19

\* The divisors of lines 403, 415 and 423
LowSlots  == 6
PeakSlots == 6
DaySlots  == 34

\* The low accumulator divided an interval before the low band is over
LowEndAtFour(hour, minute) == hour = 4 /\ minute = 0

\* The records at which the accumulators are divided (lines 401, 413, 421)

LowEnd(hour, minute)  == hour = 5 /\ minute = 30
PeakEnd(hour, minute) == hour = 18 /\ minute = 30
DayEnd(hour, minute)  == hour = 23 /\ minute = 30

AddIf(cond, acc, value) == IF cond THEN FracAdd(acc, Frac(value, 1)) ELSE acc

ProcessImportRate ==
    /\ pc = "rates"
    /\ ri < Len(rate_data)
    /\ LET rate   == Reversed(rate_data)[ri + 1]
           dtiso  == rate.start
           date   == DateOf(dtiso)
           hour   == HourOf(dtiso)
           minute == MinuteOf(dtiso)
           value  == rate.value
           fresh  == date # last_date
           low0   == IF fresh THEN Zero ELSE flux_period_averages[date]
           day0   == IF fresh THEN Zero ELSE agile_daily_averages[date]
           peak0  == IF fresh THEN Zero ELSE agile_peak_averages[date]
           low1   == AddIf(InLowBand(hour), low0, value)
           day1   == AddIf(InDayBand(hour), day0, value)
           peak1  == AddIf(InPeakBand(hour), peak0, value)
           lowEnd  == LowEnd(hour, minute)
           peakEnd == PeakEnd(hour, minute)
           dayEnd  == DayEnd(hour, minute)
       IN  /\ last_date' = date
           /\ agile_rates' = MapPut(agile_rates, dtiso, value)
           /\ flux_total' = IF lowEnd THEN FracAdd(flux_total, low1) ELSE flux_total
           /\ flux_period_averages' =
                MapPut(flux_period_averages, date,
                       IF lowEnd THEN FracDiv(low1, LowSlots) ELSE low1)
           /\ agile_peak_total' =
                IF peakEnd THEN FracAdd(agile_peak_total, peak1) ELSE agile_peak_total
           /\ agile_peak_averages' =
                MapPut(agile_peak_averages, date,
                       IF peakEnd THEN FracDiv(peak1, PeakSlots) ELSE peak1)
           /\ agile_daily_total' =
                IF dayEnd THEN FracAdd(agile_daily_total, day1) ELSE agile_daily_total
           /\ agile_daily_averages' =
                MapPut(agile_daily_averages, date,
                       IF dayEnd THEN FracDiv(day1, DaySlots) ELSE day1)
           /\ finalised' =
                finalised
                    \cup (IF lowEnd THEN {[date |-> date, band |-> "low"]} ELSE {})
                    \cup (IF peakEnd THEN {[date |-> date, band |-> "peak"]} ELSE {})
                    \cup (IF dayEnd THEN {[date |-> date, band |-> "day"]} ELSE {})
    /\ ri' = ri + 1
    /\ UNCHANGED <<dataVars, usage_data, pc, error, agile_export_rates, usageVars,
                   reportVars, printed, influx>>

\* Processing export rates (lines 428-439)
ProcessExportRates ==
    /\ pc = "rates"
    /\ ri = Len(rate_data)
    /\ agile_export_rates' =
          [t \in {export_rate_data[i].start : i \in 1..Len(export_rate_data)} |->
              LET i == CHOOSE j \in 1..Len(export_rate_data) :
                            export_rate_data[j].start = t
              IN  export_rate_data[i].value]
    /\ pc' = "check"
    /\ UNCHANGED <<dataVars, usage_data, error, rateVars, usageVars, reportVars,
                   printed, influx>>

\* 'No agile data found' or the retrieval of the consumption (lines 442-452)
CheckAgileData ==
    /\ pc = "check"
    /\ IF DOMAIN flux_period_averages = {}
       THEN /\ pc' = "aborted"
            /\ error' = "No agile data found"
            /\ UNCHANGED <<usage_data, last_date>>
       ELSE /\ pc' = "usage"
            /\ usage_data' = IF inp.no_usage THEN <<>>
                             ELSE Retrieved(inp.from_slot, inp.to_slot, {}, inp.usage)
            /\ last_date' = NoDate
            /\ UNCHANGED error
    /\ UNCHANGED <<dataVars, ri, flux_period_averages, flux_total,
                   agile_daily_averages, agile_daily_total, agile_peak_averages,
                   agile_peak_total, agile_rates, finalised, agile_export_rates,
                   usageVars, reportVars, printed, influx>>

\* ------------------------------------------------------------------------
\* Processing consumption data (lines 470-639), one interval per step
\* ------------------------------------------------------------------------
NewCosts ==
    [agile_rate |-> 0, agile_export_rate |-> 0, agile_cost |-> 0, flux_cost |-> 0,
     consumption |-> 0, export |-> 0, previous_cost |-> 0, flux_total |-> 0,
     solar_generated |-> 0]

\* What the branch taken does in an interval (lines 539-637)
IntervalStep(month, hour, minute, t, battery, consumption, solar_generated, agile_rate, export_rate) ==
    IF need_to_charge_battery(month, hour * 60 + minute, battery, agile_rate)
    THEN ChargeFromGrid(t, battery, consumption, agile_rate)
    ELSE SolarBatteryGrid(month, hour, minute, battery, consumption,
                          solar_generated, FluxRate(hour), agile_rate, export_rate)

\* The ledger entry of an interval: created at lines 518-528 with the battery
\* level of that moment, completed by the branch taken
LedgerEntry(consumption, flux_rate, battery, solar_generated, agile_rate, export_rate, step) ==
    [consumption       |-> step.consumption,
     agile_rate        |-> agile_rate,
     agile_export_rate |-> export_rate,
     agile_cost        |-> step.agile_cost,
     flux_rate         |-> flux_rate,
     current_battery   |-> battery,
     solar_generation  |-> solar_generated,
     solar_export      |-> step.export,
     usage             |-> consumption]

\* agile_rates[dtiso] and agile_export_rates[dtiso] (lines 520-521) raise
\* KeyError for a timestamp the table does not hold
RateMissingImportOnly(dtiso) == dtiso \notin DOMAIN agile_rates

RateMissing(dtiso) ==
    dtiso \notin DOMAIN agile_rates \/ dtiso \notin DOMAIN agile_export_rates

\* table[dtiso], read only where the key is present
RateAt(table, dtiso) == IF dtiso \in DOMAIN table THEN table[dtiso] ELSE 0

ProcessUsagePeriod ==
    /\ pc = "usage"
    /\ ui < Len(usage_data)
    /\ LET usage_period == Reversed(usage_data)[ui + 1]
           dtiso  == usage_period.start
           date   == DateOf(dtiso)
           hour   == HourOf(dtiso)
           minute == MinuteOf(dtiso)
           consumption == usage_period.value
           newDay == date.day # current_day
           costs0 == IF date # last_date THEN DictPut(costs, date, NewCosts) ELSE costs
           solar_generated ==
               calculate_30min_solar(curves, monthly_solar, date.year, date.month,
                                     hour, minute)
           day0   == DictGet(costs0, date)
           day1   == [day0 EXCEPT !.solar_generated = @ + solar_generated]
       IN  \* lines 484-507
           /\ current_day' = date.day
           /\ days_of_zero_grid' =
                IF newDay /\ daily_grid_consumption = 0
                THEN days_of_zero_grid + 1 ELSE days_of_zero_grid
           /\ last_date' = date
           /\ curves' = curves_after(curves, monthly_solar, date.year, date.month, hour)
           /\ IF RateMissing(dtiso)
              THEN \* KeyError at line 520 or 521
                   /\ pc' = "aborted"
                   /\ error' = "KeyError"
                   /\ costs' = DictPut(costs0, date, day1)
                   /\ daily_grid_consumption' =
                        IF newDay THEN 0 ELSE daily_grid_consumption
                   /\ UNCHANGED <<ui, current_battery, grid_usage, total_consumption,
                                  grid_consumption, branch_taken>>
              ELSE LET agile_rate  == RateAt(agile_rates, dtiso)
                       export_rate == RateAt(agile_export_rates, dtiso)
                       step == IntervalStep(date.month, hour, minute, dtiso,
                                            current_battery, consumption,
                                            solar_generated, agile_rate, export_rate)
                       day2 == [day1 EXCEPT
                                  !.consumption   = @ + consumption,
                                  !.previous_cost = @ + consumption * agile_rate,
                                  !.flux_total    = @ + consumption * FluxRate(hour),
                                  !.flux_cost     = @ + step.flux_cost,
                                  !.agile_cost    = @ + step.agile_cost,
                                  !.export        = @ + step.export]
                   IN  /\ grid_usage' =
                            MapPut(grid_usage, dtiso,
                                   LedgerEntry(consumption, FluxRate(hour),
                                               current_battery, solar_generated,
                                               agile_rate, export_rate, step))
                       /\ total_consumption' = total_consumption + consumption
                       /\ costs' = DictPut(costs0, date, day2)
                       /\ grid_consumption' = grid_consumption + step.grid
                       /\ daily_grid_consumption' =
                            (IF newDay THEN 0 ELSE daily_grid_consumption) + step.grid
                       /\ current_battery' = step.battery
                       /\ branch_taken' = MapPut(branch_taken, dtiso, step.branch)
                       /\ ui' = ui + 1
                       /\ UNCHANGED <<pc, error>>
    /\ UNCHANGED <<dataVars, usage_data, ri, flux_period_averages, flux_total,
                   agile_daily_averages, agile_daily_total, agile_peak_averages,
                   agile_peak_total, agile_rates, finalised, agile_export_rates,
                   reportVars, printed, influx>>

\* ------------------------------------------------------------------------
\* Reports (lines 642-694) and the sink (lines 697-698)
\* ------------------------------------------------------------------------
\* The low/day/peak averages (lines 643-645)
PrintPeriodSummary ==
    /\ pc = "usage"
    /\ ui = Len(usage_data)
    /\ summary' =
          [low  |-> FracDiv(FracDiv(flux_total,
                                    Cardinality(DOMAIN flux_period_averages)), 6),
           day  |-> FracDiv(FracDiv(agile_daily_total,
                                    Cardinality(DOMAIN agile_daily_averages)), 34),
           peak |-> FracDiv(FracDiv(agile_peak_total,
                                    Cardinality(DOMAIN agile_peak_averages)), 6)]
    /\ printed' = printed \cup {"periods"}
    /\ pc' = "aggregate"
    /\ UNCHANGED <<dataVars, usage_data, error, rateVars, agile_export_rates,
                   usageVars, monthly_totals, totals, influx>>

NewMonth ==
    [agile_cost |-> 0, flux_cost |-> 0, consumption |-> 0, export |-> 0,
     previous_cost |-> 0, flux_total |-> 0, solar_generated |-> 0]

\* date[:7]
MonthOf(date) == [year |-> date.year, month |-> date.month]

\* The loop of lines 654-673 starting the month afresh at every date
RECURSIVE AggregateEveryDateAfresh(_, _, _, _)
AggregateEveryDateAfresh(i, last_month, monthly, tot) ==
    IF i > Len(costs) THEN [monthly_totals |-> monthly, totals |-> tot]
    ELSE LET data  == costs[i].v
             month == MonthOf(costs[i].k)
             new   == [agile_cost      |-> data.agile_cost,
                       flux_cost       |-> data.flux_cost,
                       consumption     |-> data.consumption,
                       export          |-> data.export,
                       previous_cost   |-> data.previous_cost,
                       flux_total      |-> data.flux_total,
                       solar_generated |-> data.solar_generated]
             tot1  == [agile_cost      |-> tot.agile_cost + data.agile_cost,
                       flux_cost       |-> tot.flux_cost + data.flux_cost,
                       export          |-> tot.export + data.export,
                       previous_cost   |-> tot.previous_cost + data.previous_cost,
                       flux_total      |-> tot.flux_total + data.flux_total,
                       solar_generated |-> tot.solar_generated + data.solar_generated]
         IN  AggregateEveryDateAfresh(i + 1, month, DictPut(monthly, month, new), tot1)

\* The loop of lines 654-673 from item i of costs on
RECURSIVE Aggregate(_, _, _, _)
Aggregate(i, last_month, monthly, tot) ==
    IF i > Len(costs) THEN [monthly_totals |-> monthly, totals |-> tot]
    ELSE LET data  == costs[i].v
             month == MonthOf(costs[i].k)
             m0    == IF month # last_month THEN DictPut(monthly, month, NewMonth)
                      ELSE monthly
             old   == DictGet(m0, month)
             new   == [agile_cost      |-> old.agile_cost + data.agile_cost,
                       flux_cost       |-> old.flux_cost + data.flux_cost,
                       consumption     |-> old.consumption + data.consumption,
                       export          |-> old.export + data.export,
                       previous_cost   |-> old.previous_cost + data.previous_cost,
                       flux_total      |-> old.flux_total + data.flux_total,
                       solar_generated |-> old.solar_generated + data.solar_generated]
             tot1  == [agile_cost      |-> tot.agile_cost + data.agile_cost,
                       flux_cost       |-> tot.flux_cost + data.flux_cost,
                       export          |-> tot.export + data.export,
                       previous_cost   |-> tot.previous_cost + data.previous_cost,
                       flux_total      |-> tot.flux_total + data.flux_total,
                       solar_generated |-> tot.solar_generated + data.solar_generated]
         IN  Aggregate(i + 1, month, DictPut(m0, month, new), tot1)

AggregateTotals ==
    /\ pc = "aggregate"
    /\ LET a == Aggregate(1, [year |-> 0, month |-> 0], <<>>, NoTotals)
       IN  /\ monthly_totals' = a.monthly_totals
           /\ totals' = a.totals
    /\ pc' = "report"
    /\ UNCHANGED <<dataVars, usage_data, error, rateVars, agile_export_rates,
                   usageVars, summary, printed, influx>>

\* The divisions of the monthly lines (677) and of the totals (688, 689, 691)
MonthlyLinesDivide ==
    \A i \in 1..Len(monthly_totals) : monthly_totals[i].v.consumption # 0
TotalsDivide ==
    /\ total_consumption # 0
    /\ grid_consumption # 0
    /\ totals.solar_generated # 0

PrintReport ==
    /\ pc = "report"
    /\ IF MonthlyLinesDivide /\ TotalsDivide
       THEN /\ printed' = printed \cup {"monthly", "totals"}
            /\ pc' = "store"
            /\ UNCHANGED error
       ELSE /\ printed' = IF MonthlyLinesDivide THEN printed \cup {"monthly"}
                          ELSE printed
            /\ pc' = "aborted"
            /\ error' = "ZeroDivisionError"
    /\ UNCHANGED <<dataVars, usage_data, rateVars, agile_export_rates, usageVars,
                   reportVars, influx>>

\* store_series leaving out the intervals that drew nothing from the grid
PointsOfGridDraw(series, metrics) ==
    [date \in {d \in DOMAIN metrics : metrics[d].consumption > 0} |->
        [measurement |-> series,
         time   |-> date,
         fields |-> [consumption       |-> metrics[date].consumption,
                     agile_rate        |-> metrics[date].agile_rate,
                     agile_export_rate |-> metrics[date].agile_export_rate,
                     agile_cost        |-> metrics[date].agile_cost,
                     flux_rate         |-> metrics[date].flux_rate,
                     flux_cost         |-> metrics[date].consumption
                                             * metrics[date].flux_rate,
                     battery_charge    |-> metrics[date].current_battery,
                     solar_generation  |-> metrics[date].solar_generation,
                     solar_export      |-> metrics[date].solar_export,
                     actual_usage      |-> metrics[date].usage]]]

\* store_series (lines 184-230): one point per item of metrics, one write
Points(series, metrics) ==
    [date \in DOMAIN metrics |->
        [measurement |-> series,
         time   |-> date,
         fields |-> [consumption       |-> metrics[date].consumption,
                     agile_rate        |-> metrics[date].agile_rate,
                     agile_export_rate |-> metrics[date].agile_export_rate,
                     agile_cost        |-> metrics[date].agile_cost,
                     flux_rate         |-> metrics[date].flux_rate,
                     flux_cost         |-> metrics[date].consumption
                                             * metrics[date].flux_rate,
                     battery_charge    |-> metrics[date].current_battery,
                     solar_generation  |-> metrics[date].solar_generation,
                     solar_export      |-> metrics[date].solar_export,
                     actual_usage      |-> metrics[date].usage]]]

StoreSeries ==
    /\ pc = "store"
    /\ influx' = IF cfg.write_db
                 THEN Append(influx, Points("solar_electricity", grid_usage))
                 ELSE influx
    /\ pc' = "done"
    /\ UNCHANGED <<dataVars, usage_data, error, rateVars, agile_export_rates,
                   usageVars, reportVars, printed>>

Next ==
    \/ ProcessImportRate
    \/ ProcessExportRates
    \/ CheckAgileData
    \/ ProcessUsagePeriod
    \/ PrintPeriodSummary
    \/ AggregateTotals
    \/ PrintReport
    \/ StoreSeries

Spec == Init /\ [][Next]_vars

\* ------------------------------------------------------------------------
\* The discharge policy and the monthly split applied on their own
\* ------------------------------------------------------------------------
\* Season lists with and without a month in both, window and winter start on
\* and off the hour
PolicyCfgs ==
    {[BaseCfg EXCEPT !.winter_months = wm, !.summer_charge_battery = scb,
                     !.battery_charge_end_minute = em,
                     !.winter_battery_start_mins = ws] :
        wm \in {{1, 2, 11, 12}, {1, 2, 6, 11, 12}}, scb \in BOOLEAN,
        em \in {0, 30}, ws \in {0, 30}}

\* Annual output figures: every multiple of 1e-4 kWh up to MaxAnnualFigure,
\* and figures of the size of a real installation
MaxAnnualFigure == 1500
AnnualFigures ==
    (0..MaxAnnualFigure)
    \cup {4000 * kWh, 34567 * (kWh \div 10), 345678 * (kWh \div 100)}

InitFunctions ==
    \E c \in PolicyCfgs :
        /\ Setup([cfg |-> c, inp |-> BaseInp])
        /\ pc = "call"
        /\ call = NoCall
        /\ result = NoCall

Call_are_we_using_the_battery ==
    /\ pc = "call"
    /\ call.fn = "none"
    /\ \E month \in 1..12, hour \in 0..23, mins \in {0, 30} :
          /\ call' = [fn |-> "are_we_using_the_battery",
                      month |-> month, hour |-> hour, mins |-> mins]
          /\ result' = are_we_using_the_battery(month, hour, mins)
    /\ UNCHANGED <<cfg, inp, rate_data, export_rate_data, usage_data, pc, error,
                   rateVars, agile_export_rates, usageVars, reportVars, printed,
                   influx>>

Call_calculate_monthly_solar ==
    /\ pc = "call"
    /\ call.fn = "none"
    /\ \E kwh \in AnnualFigures :
          /\ call' = [fn |-> "calculate_monthly_solar", kwh |-> kwh]
          /\ result' = calculate_monthly_solar(kwh)
    /\ UNCHANGED <<cfg, inp, rate_data, export_rate_data, usage_data, pc, error,
                   rateVars, agile_export_rates, usageVars, reportVars, printed,
                   influx>>

NextFunctions ==
    \/ Call_are_we_using_the_battery
    \/ Call_calculate_monthly_solar

SpecFunctions == InitFunctions /\ [][NextFunctions]_vars

\* ------------------------------------------------------------------------
\* calculate_30min_solar called any number of times, in any order
\* ------------------------------------------------------------------------
\* A leap year and the year after it, a month whose length differs between
\* them and one whose length does not
CurveYears   == {2024, 2025}
CurveMonths  == {2, 6}
CurveOutputs == {4000 * kWh, 3650 * kWh}

InitCurves ==
    \E ao \in CurveOutputs :
        /\ Setup([cfg |-> [BaseCfg EXCEPT !.annual_output = ao], inp |-> BaseInp])
        /\ pc = "call"
        /\ call = NoCall
        /\ result = NoCall

Call_calculate_30min_solar ==
    /\ pc = "call"
    /\ \E year \in CurveYears, month \in CurveMonths, hour \in 0..23, minute \in {0, 30} :
          /\ call' = [fn |-> "calculate_30min_solar", year |-> year,
                      month |-> month, hour |-> hour, minute |-> minute]
          /\ curves' = curves_after(curves, monthly_solar, year, month, hour)
          /\ result' = calculate_30min_solar(curves, monthly_solar, year, month,
                                             hour, minute)
    /\ UNCHANGED <<cfg, inp, rate_data, export_rate_data, usage_data, pc, error,
                   rateVars, agile_export_rates, ui, current_battery, costs,
                   grid_usage, total_consumption, grid_consumption, current_day,
                   daily_grid_consumption, days_of_zero_grid, branch_taken,
                   reportVars, printed, influx>>

NextCurves == Call_calculate_30min_solar

SpecCurves == InitCurves /\ [][NextCurves]_vars

\* ------------------------------------------------------------------------
\* The import-rate requests for any range and any tariff switch date
\* ------------------------------------------------------------------------
MaxRequestSlot == 8

InitRequests ==
    /\ Setup([cfg |-> BaseCfg, inp |-> BaseInp])
    /\ pc = "call"
    /\ call = NoCall
    /\ result = NoCall

Call_RateRequests ==
    /\ pc = "call"
    /\ call.fn = "none"
    /\ \E from \in 0..MaxRequestSlot, to \in 0..MaxRequestSlot, switch \in 0..MaxRequestSlot :
          /\ from < to
          /\ call' = [fn |-> "RateRequests", from |-> from, to |-> to,
                      switch |-> switch]
          /\ result' = RateRequests(from, to, switch)
    /\ UNCHANGED <<cfg, inp, rate_data, export_rate_data, usage_data, pc, error,
                   rateVars, agile_export_rates, usageVars, reportVars, printed,
                   influx>>

NextRequests == Call_RateRequests

SpecRequests == InitRequests /\ [][NextRequests]_vars

\* ------------------------------------------------------------------------
\* retrieve_paginated_data: one page, request by request (lines 142-166)
\* ------------------------------------------------------------------------
\* Requests followed in one call; the loop itself has no such limit
MaxRequests == 7

\* Status codes the API answers with: success, a success that is not 200, a
\* client error and a server error
Statuses == {200, 204, 404, 503}

\* response.raise_for_status() raises HTTPError for a 4xx or 5xx status and
\* returns for any other
raise_for_status(status_code) == status_code \in 400..599

InitRetrieve ==
    /\ Setup([cfg |-> BaseCfg, inp |-> BaseInp])
    /\ pc = "call"
    /\ call = NoCall
    /\ result = NoCall

\* Entry (lines 142-156): a cache file is returned without a request,
\* otherwise the loop is entered with attempt = 1
Call_retrieve_paginated_data ==
    /\ pc = "call"
    /\ call.fn = "none"
    /\ \E cached \in BOOLEAN :
          /\ call' = [fn |-> "retrieve_paginated_data", cached |-> cached]
          /\ result' = [at        |-> IF cached THEN "returned" ELSE "loop",
                        attempt   |-> 1,
                        responses |-> << >>]
    /\ UNCHANGED <<cfg, inp, rate_data, export_rate_data, usage_data, pc, error,
                   rateVars, agile_export_rates, usageVars, reportVars, printed,
                   influx>>

\* One pass of the while loop (lines 157-163)
RequestPage ==
    /\ pc = "call"
    /\ call.fn = "retrieve_paginated_data"
    /\ result.at = "loop"
    /\ Len(result.responses) < MaxRequests
    /\ \E status_code \in Statuses :
          LET responses == Append(result.responses, status_code)
              attempt   == result.attempt + 1
          IN  result' =
                 IF status_code = 200
                 THEN [at |-> "proceeds", attempt |-> result.attempt,
                       responses |-> responses]
                 ELSE IF attempt > 5 /\ raise_for_status(status_code)
                 THEN [at |-> "HTTPError", attempt |-> attempt,
                       responses |-> responses]
                 ELSE [at |-> "loop", attempt |-> attempt,
                       responses |-> responses]
    /\ UNCHANGED <<cfg, inp, rate_data, export_rate_data, usage_data, pc, error,
                   rateVars, agile_export_rates, usageVars, reportVars, printed,
                   influx, call>>

NextRetrieve == Call_retrieve_paginated_data \/ RequestPage

SpecRetrieve == InitRetrieve /\ [][NextRetrieve]_vars

\* ------------------------------------------------------------------------
\* Reading the ledger
\* ------------------------------------------------------------------------
\* The intervals processed so far, and the last of them
Processed == DOMAIN grid_usage
LastProcessed == CHOOSE t \in Processed : \A u \in Processed : u <= t

\* Whether the grid-charging branch was taken in processed interval t
Charged(t) ==
    need_to_charge_battery(DateOf(t).month, HourOf(t) * 60 + MinuteOf(t),
                           grid_usage[t].current_battery, grid_usage[t].agile_rate)

\* The battery charge on entry to processed interval t and after its step
BatteryBefore(t) == grid_usage[t].current_battery
BatteryAfter(t) ==
    IF t + 1 \in Processed THEN grid_usage[t + 1].current_battery
    ELSE current_battery

\* ------------------------------------------------------------------------
\* Properties
\* ------------------------------------------------------------------------
\* C1: after every processed interval the battery charge lies in
\* [battery_min, battery_max].
BatteryWithinLimits ==
    Processed # {} =>
        /\ cfg.battery_min <= current_battery
        /\ current_battery <= cfg.battery_max

\* C2: in every interval where grid charging applies, the grid draw recorded
\* for the interval is at most inverter_limit/2 plus the interval's consumption.
ChargingDrawBounded ==
    \A t \in Processed :
        Charged(t) =>
            grid_usage[t].consumption
                <= cfg.inverter_limit \div 2 + grid_usage[t].usage

\* C2 witness: a grid-charging interval whose draw is exactly the limit plus a
\* positive consumption.
ChargingDrawAtLimit ==
    \E t \in Processed :
        /\ Charged(t)
        /\ grid_usage[t].usage > 0
        /\ cfg.battery_max - BatteryBefore(t) > cfg.inverter_limit \div 2
        /\ grid_usage[t].consumption
              = cfg.inverter_limit \div 2 + grid_usage[t].usage

\* C3: in every interval the battery is discharged by at most inverter_limit/2.
DischargeWithinInverterLimit ==
    \A t \in Processed :
        BatteryBefore(t) - BatteryAfter(t) <= cfg.inverter_limit \div 2


\* C4: if a rate table has no entry for the timestamp of a consumption
\* interval, the run aborts at that interval (no later interval is processed,
\* no report stage is reached) and nothing is written to the sink.
NoRate(t) == t \notin DOMAIN agile_rates \/ t \notin DOMAIN agile_export_rates
GapRecords ==
    {i \in 1..Len(usage_data) : NoRate(Reversed(usage_data)[i].start)}
FirstGap == CHOOSE i \in GapRecords : \A j \in GapRecords : i <= j

MissingRateAbortsRun ==
    GapRecords # {} =>
        /\ ui < FirstGap
        /\ pc \in {"usage", "aborted"}
        /\ pc = "aborted" => (error = "KeyError" /\ ui = FirstGap - 1)
        /\ influx = <<>>
        /\ Processed = {Reversed(usage_data)[i].start : i \in 1..ui}

\* C4 witness: a run with the sink enabled that processed some intervals and
\* then stopped on a missing rate.
AbortedOnMissingRate ==
    /\ pc = "aborted"
    /\ error = "KeyError"
    /\ ui > 0
    /\ GapRecords # {}
    /\ cfg.write_db
    /\ influx = <<>>

\* C5: for a day with full half-hourly coverage, each finalised daily average
\* (low, day, peak) equals the simple mean of the agile import rates of the
\* slots accumulated into that band.
RECURSIVE SumRates(_)
SumRates(S) ==
    IF S = {} THEN 0
    ELSE LET t == CHOOSE x \in S : TRUE IN agile_rates[t] + SumRates(S \ {t})

DaySlotsOf(d)  == (48 * d)..(48 * d + 47)
CoveredDays    == {d \in {t \div 48 : t \in DOMAIN agile_rates} :
                      DaySlotsOf(d) \subseteq DOMAIN agile_rates}
LowSlotsOf(d)  == {t \in DaySlotsOf(d) : InLowBand(HourOf(t))}
DayBandSlotsOf(d) == {t \in DaySlotsOf(d) : InDayBand(HourOf(t))}
PeakSlotsOf(d) == {t \in DaySlotsOf(d) : InPeakBand(HourOf(t))}
MeanOf(S)      == Frac(SumRates(S), Cardinality(S))

LowAverageIsMean ==
    \A d \in CoveredDays :
        FracEq(flux_period_averages[DateOf(48 * d)], MeanOf(LowSlotsOf(d)))
PeakAverageIsMean ==
    \A d \in CoveredDays :
        FracEq(agile_peak_averages[DateOf(48 * d)], MeanOf(PeakSlotsOf(d)))
DayAverageIsMean ==
    \A d \in CoveredDays :
        FracEq(agile_daily_averages[DateOf(48 * d)], MeanOf(DayBandSlotsOf(d)))

DailyAveragesAreMeans ==
    LowAverageIsMean /\ PeakAverageIsMean /\ DayAverageIsMean


\* C6: a 02:00-05:00 charging window entered with an empty battery, with zero
\* consumption and zero solar in the window.
WindowOf(d) == {t \in DaySlotsOf(d) :
                   /\ HourOf(t) * 60 + MinuteOf(t) >= battery_charge_start_minutes
                   /\ HourOf(t) * 60 + MinuteOf(t) < battery_charge_end_minutes}
WindowFirst(d) == CHOOSE t \in WindowOf(d) : \A u \in WindowOf(d) : t <= u
WindowLast(d)  == CHOOSE t \in WindowOf(d) : \A u \in WindowOf(d) : u <= t

EmptyIdleWindow(d) ==
    /\ battery_charge_start_minutes = 2 * 60
    /\ battery_charge_end_minutes = 5 * 60
    /\ WindowOf(d) \subseteq Processed
    /\ BatteryBefore(WindowFirst(d)) = 0
    /\ \A t \in WindowOf(d) :
          grid_usage[t].usage = 0 /\ grid_usage[t].solar_generation = 0

ProcessedDays == {t \div 48 : t \in Processed}

\* C6 as stated: with capacity 5 kWh and inverter limit 2 kW the battery ends
\* the window at min(5, 3 x 1) = 3 kWh.
WindowEndsAtThreeKWh ==
    \A d \in ProcessedDays :
        (EmptyIdleWindow(d) /\ cfg.battery_max = 5 * kWh
                            /\ cfg.inverter_limit = 2 * kWh)
            => BatteryAfter(WindowLast(d)) = 3 * kWh

\* C6 amended: where window charging is enabled for the month, the battery
\* ends the window at min(capacity, 6 x inverter_limit/2), the window holding
\* six half-hour intervals: 5 kWh for capacity 5 kWh and inverter limit 2 kW.
WindowChargingEnabled(d) ==
    cfg.summer_charge_battery \/ DateOf(48 * d).month \notin cfg.summer_months

WindowEndsAtSixHalfHours ==
    \A d \in ProcessedDays :
        (EmptyIdleWindow(d) /\ WindowChargingEnabled(d))
            => /\ BatteryAfter(WindowLast(d))
                    = Min(cfg.battery_max, 6 * (cfg.inverter_limit \div 2))
               /\ (cfg.battery_max = 5 * kWh /\ cfg.inverter_limit = 2 * kWh)
                    => BatteryAfter(WindowLast(d)) = 5 * kWh

\* C6 witness: the scenario's window has been run through and left 5 kWh.
WindowScenarioRun ==
    \E d \in ProcessedDays :
        /\ EmptyIdleWindow(d)
        /\ WindowChargingEnabled(d)
        /\ cfg.battery_max = 5 * kWh
        /\ cfg.inverter_limit = 2 * kWh
        /\ BatteryAfter(WindowLast(d)) = 5 * kWh

\* C7: with battery capacity 0 and no solar generation.
NoBatteryNoSolar == cfg.battery_max = 0 /\ cfg.annual_output = 0

GridDrawIsConsumption ==
    \A t \in Processed :
        /\ grid_usage[t].consumption = grid_usage[t].usage
        /\ grid_usage[t].agile_cost = grid_usage[t].usage * grid_usage[t].agile_rate

\* C7 as stated: every interval's grid draw is its consumption, costed at the
\* agile rate, and for every day agile_cost = previous_cost and
\* flux_cost = flux_total.
NoBatteryTotalsMatch ==
    NoBatteryNoSolar =>
        /\ GridDrawIsConsumption
        /\ \A i \in 1..Len(costs) :
              /\ costs[i].v.agile_cost = costs[i].v.previous_cost
              /\ costs[i].v.flux_cost = costs[i].v.flux_total

\* C7 amended: flux_cost = flux_total is claimed only of a day none of whose
\* intervals is charged under the negative-price rule (such an interval is
\* costed at the flux low rate whatever its hour band).
DayHasChargedInterval(date) ==
    \E t \in Processed : DateOf(t) = date /\ Charged(t)

NoBatteryTotalsMatchUnlessCharged ==
    NoBatteryNoSolar =>
        /\ GridDrawIsConsumption
        /\ \A i \in 1..Len(costs) :
              /\ costs[i].v.agile_cost = costs[i].v.previous_cost
              /\ ~DayHasChargedInterval(costs[i].k)
                    => costs[i].v.flux_cost = costs[i].v.flux_total

\* C7 witness: a whole range replayed without battery and solar, with
\* consumption billed in every band of a day.
NoBatteryDayBilled ==
    /\ NoBatteryNoSolar
    /\ pc = "usage"
    /\ ui = Len(usage_data)
    /\ Len(costs) > 1
    /\ ~DayHasChargedInterval(costs[1].k)
    /\ costs[1].v.consumption = 48 * kWh
    /\ costs[1].v.flux_cost = costs[1].v.flux_total
    /\ costs[1].v.flux_cost
          = (6 * cfg.flux_rate_low + 6 * cfg.flux_rate_peak
                + 36 * cfg.flux_rate_day) * kWh


\* C8: in a non-charging interval with solar >= consumption the grid draw is 0,
\* the battery becomes min(charge + surplus, capacity), the export is
\* max(0, charge + surplus - capacity), and the interval's and the day's agile
\* cost are reduced by export x export rate.
NextStart == Reversed(usage_data)[ui + 1].start
NextUsage == Reversed(usage_data)[ui + 1].value
NextSolar ==
    calculate_30min_solar(curves, monthly_solar, DateOf(NextStart).year,
                          DateOf(NextStart).month, HourOf(NextStart),
                          MinuteOf(NextStart))
\* the day's agile cost so far, as the interval finds it
DayAgileCost ==
    IF DateOf(NextStart) = last_date THEN DictGet(costs, last_date).agile_cost
    ELSE 0
Max(a, b) == IF a >= b THEN a ELSE b

SolarSurplusStep ==
    /\ pc = "usage"
    /\ ui < Len(usage_data)
    /\ ui' = ui + 1
    /\ ~need_to_charge_battery(DateOf(NextStart).month,
                               HourOf(NextStart) * 60 + MinuteOf(NextStart),
                               current_battery, agile_rates[NextStart])
    /\ NextSolar >= NextUsage

SolarSurplusEffect ==
    LET t       == NextStart
        surplus == NextSolar - NextUsage
        export  == Max(0, current_battery + surplus - cfg.battery_max)
        credit  == export * agile_export_rates[t]
    IN  /\ grid_usage'[t].consumption = 0
        /\ grid_consumption' = grid_consumption
        /\ current_battery' = Min(current_battery + surplus, cfg.battery_max)
        /\ grid_usage'[t].solar_export = export
        /\ grid_usage'[t].agile_cost = 0 - credit
        /\ DictGet(costs', DateOf(t)).agile_cost = DayAgileCost - credit
        /\ DictGet(costs', DateOf(t)).export
              = (IF DateOf(t) = last_date THEN DictGet(costs, last_date).export
                 ELSE 0) + export

SolarSurplusChargesThenExports ==
    [][SolarSurplusStep => SolarSurplusEffect]_vars

\* C8 witness: solar above a positive consumption with the battery at
\* capacity, the surplus exported and credited.
SurplusExported ==
    \E t \in Processed :
        /\ ~Charged(t)
        /\ grid_usage[t].usage > 0
        /\ grid_usage[t].solar_generation > grid_usage[t].usage
        /\ BatteryBefore(t) = cfg.battery_max
        /\ BatteryAfter(t) = cfg.battery_max
        /\ grid_usage[t].solar_export
              = grid_usage[t].solar_generation - grid_usage[t].usage
        /\ grid_usage[t].agile_cost < 0

\* C9: a run over non-empty, gap-free input never stops early.
InputComplete ==
    /\ ~inp.no_usage
    /\ inp.to_slot > inp.from_slot
    /\ Len(rate_data) = inp.to_slot - inp.from_slot
    /\ Len(export_rate_data) = inp.to_slot - inp.from_slot

CompleteInputRunsToCompletion ==
    InputComplete => pc # "aborted"

\* C10: the battery level stored in an interval's ledger entry is the charge
\* that results from that interval's charge/discharge step.
LedgerHoldsResultingCharge ==
    Processed # {} =>
        grid_usage[LastProcessed].current_battery = current_battery

\* C11: in every grid-charging interval the battery charge rises by exactly
\* the energy drawn from the grid for charging (grid draw minus consumption),
\* so at or after model_cutoff, where nothing is drawn, it is unchanged.
GridChargeDrawn(t) == grid_usage[t].consumption - grid_usage[t].usage

BatteryRise(t) == BatteryAfter(t) - BatteryBefore(t)

InverterCappedShortfall(t) ==
    Min(cfg.battery_max - BatteryBefore(t), cfg.inverter_limit \div 2)

MinuteOfDay(t) == HourOf(t) * 60 + MinuteOf(t)

InChargeWindow(t) ==
    /\ MinuteOfDay(t) >= battery_charge_start_minutes
    /\ MinuteOfDay(t) < battery_charge_end_minutes

NegativeRateCharge(t) ==
    /\ cfg.summer_charge_when_negative
    /\ DateOf(t).month \in cfg.summer_months
    /\ grid_usage[t].agile_rate < 0

WindowCharge(t) ==
    /\ InChargeWindow(t)
    /\ BatteryBefore(t) < cfg.battery_max
    /\ (cfg.summer_charge_battery \/ DateOf(t).month \notin cfg.summer_months)

ChargingBranchTakenExactlyWhen ==
    \A t \in Processed :
        branch_taken[t] = "charge" <=> (WindowCharge(t) \/ NegativeRateCharge(t))

\* C12 witness: one run that charged in the window below capacity, charged
\* outside the window on a negative rate with the battery full, and did not
\* charge outside the window on a non-negative rate.
ChargingDecidedEveryWay ==
    /\ \E t \in Processed : branch_taken[t] = "charge" /\ WindowCharge(t)
    /\ \E t \in Processed :
          /\ branch_taken[t] = "charge"
          /\ ~InChargeWindow(t) /\ BatteryBefore(t) = cfg.battery_max
          /\ NegativeRateCharge(t)
    /\ \E t \in Processed :
          /\ branch_taken[t] = "solar"
          /\ ~InChargeWindow(t) /\ grid_usage[t].agile_rate >= 0

\* C13: discharge permission is a three-way seasonal decision. In a winter
\* month it is given iff hour < charge start hour or time of day >=
\* winter_battery_start; in a summer month with summer_charge_battery false,
\* always; in every other case iff hour < charge start hour or time of day >=
\* charge window end. A month listed as both winter and summer is a winter
\* month.
AskedBattery == call.fn = "are_we_using_the_battery"

TimeOfDayAsked == call.hour * 60 + call.mins

BeforeChargeStartAsked == call.hour < cfg.battery_charge_start

WinterBatteryStart ==
    cfg.winter_battery_start * 60 + cfg.winter_battery_start_mins

DischargePermissionIsSeasonal ==
    AskedBattery =>
        /\ call.month \in cfg.winter_months =>
              (result <=> (BeforeChargeStartAsked
                             \/ TimeOfDayAsked >= WinterBatteryStart))
        /\ (/\ call.month \notin cfg.winter_months
            /\ call.month \in cfg.summer_months
            /\ ~cfg.summer_charge_battery) => result
        /\ (/\ call.month \notin cfg.winter_months
            /\ (call.month \notin cfg.summer_months \/ cfg.summer_charge_battery)) =>
              (result <=> (BeforeChargeStartAsked
                             \/ TimeOfDayAsked >= battery_charge_end_minutes))

\* C13 witness: a month listed as winter and as summer, summer charging off,
\* asked about at a time of day the winter rule refuses.
WinterRuleRefusedSummerMonth ==
    /\ AskedBattery
    /\ call.month \in cfg.winter_months \cap cfg.summer_months
    /\ ~cfg.summer_charge_battery
    /\ ~result

\* C14: the flux rate applied to an interval is the low rate for local hours
\* in [2,5), the peak rate for [16,19) and the day rate otherwise, and each
\* day's flux_total is the sum over that day's intervals of consumption times
\* that band rate.
RECURSIVE SumOver(_, _)
SumOver(S, f) ==
    IF S = {} THEN 0
    ELSE LET x == CHOOSE y \in S : TRUE IN f[x] + SumOver(S \ {x}, f)

BandRate(t) ==
    IF HourOf(t) \in 2..4 THEN cfg.flux_rate_low
    ELSE IF HourOf(t) \in 16..18 THEN cfg.flux_rate_peak
    ELSE cfg.flux_rate_day

IntervalsOf(date) == {t \in Processed : DateOf(t) = date}

FluxTotalIsBandSum ==
    /\ \A t \in Processed : grid_usage[t].flux_rate = BandRate(t)
    /\ \A i \in 1..Len(costs) :
          costs[i].v.flux_total =
              SumOver(IntervalsOf(costs[i].k),
                      [t \in Processed |-> grid_usage[t].usage * BandRate(t)])

\* C14 witness: a day whose processed intervals with positive consumption lie
\* in all three bands, followed by a second day.
DayBilledInThreeBands ==
    /\ Len(costs) >= 2
    /\ \E t \in IntervalsOf(costs[1].k) :
          grid_usage[t].usage > 0 /\ BandRate(t) = cfg.flux_rate_low
    /\ \E t \in IntervalsOf(costs[1].k) :
          grid_usage[t].usage > 0 /\ BandRate(t) = cfg.flux_rate_peak
    /\ \E t \in IntervalsOf(costs[1].k) :
          grid_usage[t].usage > 0 /\ BandRate(t) = cfg.flux_rate_day
    /\ costs[1].v.flux_total > 0
    /\ costs[2].v.flux_total > 0

\* C15: after the interval pass, for chronologically ordered input, every
\* monthly total (agile cost, flux cost, consumption, export, previous cost,
\* flux total, solar generated) is the sum of that field over the daily
\* accumulators of that year-month, and every grand total is the sum of that
\* field over all daily accumulators of the run.
Aggregated ==
    pc \in {"report", "store", "done"} \/ error = "ZeroDivisionError"

MonthlyFields ==
    {"agile_cost", "flux_cost", "consumption", "export", "previous_cost",
     "flux_total", "solar_generated"}

TotalFields == DOMAIN totals

DaysOfMonth(month) == {j \in 1..Len(costs) : MonthOf(costs[j].k) = month}

DailySum(days, field) ==
    SumOver(days, [j \in 1..Len(costs) |-> costs[j].v[field]])

TotalsAreSumsOfDays ==
    Aggregated =>
        /\ {monthly_totals[i].k : i \in 1..Len(monthly_totals)}
              = {MonthOf(costs[j].k) : j \in 1..Len(costs)}
        /\ \A i \in 1..Len(monthly_totals), field \in MonthlyFields :
              monthly_totals[i].v[field]
                  = DailySum(DaysOfMonth(monthly_totals[i].k), field)
        /\ \A field \in TotalFields :
              totals[field] = DailySum(1..Len(costs), field)

\* C15 witness: totals produced for a run of two months, the first of them
\* with two days of consumption.
TwoMonthsAggregated ==
    /\ Aggregated
    /\ Len(monthly_totals) = 2
    /\ Cardinality(DaysOfMonth(monthly_totals[1].k)) = 2
    /\ \A j \in 1..Len(costs) : costs[j].v.consumption > 0
    /\ monthly_totals[2].v.consumption > 0
    /\ totals.flux_total
          = monthly_totals[1].v.flux_total + monthly_totals[2].v.flux_total

\* C16: the sink receives exactly one point per processed consumption
\* interval, in a single write that happens at most once per run and only
\* after every interval has been processed and the aggregates produced; a
\* run that aborts earlier writes no point.
IntervalStarts == {usage_data[i].start : i \in 1..Len(usage_data)}

SinkWrittenOnceAtTheEnd ==
    /\ Len(influx) <= 1
    /\ pc = "aborted" => influx = <<>>
    /\ influx # <<>> =>
          /\ pc = "done"
          /\ ui = Len(usage_data)
          /\ Aggregated /\ {"periods", "monthly", "totals"} \subseteq printed
          /\ DOMAIN influx[1] = IntervalStarts
          /\ Cardinality(DOMAIN influx[1]) = Len(usage_data)
          /\ \A t \in DOMAIN influx[1] :
                /\ influx[1][t].time = t
                /\ influx[1][t].fields.actual_usage = grid_usage[t].usage

\* C16 witness: the write of a finished run, with intervals that drew from
\* the grid and intervals that did not.
SinkHoldsEveryInterval ==
    /\ Len(influx) = 1
    /\ Cardinality(DOMAIN influx[1]) >= RunSlots
    /\ \E t \in DOMAIN influx[1] : influx[1][t].fields.consumption > 0
    /\ \E t \in DOMAIN influx[1] : influx[1][t].fields.consumption = 0

\* C17: the reported count of zero-grid days is the number of calendar days
\* of the run whose grid draw, summed over all their intervals, is 0; the
\* first and the last day of the run included.
ZeroGridLinePrinted ==
    \/ pc \in {"store", "done"}
    \/ /\ error = "ZeroDivisionError"
       /\ MonthlyLinesDivide /\ total_consumption # 0 /\ grid_consumption # 0

GridDrawOfDay(date) ==
    SumOver(IntervalsOf(date), [t \in Processed |-> grid_usage[t].consumption])

ZeroGridDays ==
    {date \in {DateOf(t) : t \in Processed} : GridDrawOfDay(date) = 0}

ZeroGridDaysCounted ==
    ZeroGridLinePrinted => days_of_zero_grid = Cardinality(ZeroGridDays)

\* C18: when there is no consumption data or no rate data (import or export)
\* for the requested range, the run stops with a fatal empty-input error
\* before any aggregation or report output is attempted.
InputEmpty ==
    \/ rate_data = <<>>
    \/ export_rate_data = <<>>
    \/ inp.no_usage

EmptyInputStopsBeforeReports ==
    InputEmpty =>
        /\ printed = {}
        /\ pc \notin {"aggregate", "report", "store", "done"}
        /\ monthly_totals = <<>>

\* C19: a configuration with an invalid numeric range (battery_min above the
\* battery capacity, or a negative flux rate) is rejected at startup, so no
\* interval is ever processed with it.
ConfigOutOfRange ==
    \/ cfg.battery_min > cfg.battery_max
    \/ cfg.flux_rate_low < 0 \/ cfg.flux_rate_day < 0 \/ cfg.flux_rate_peak < 0

OutOfRangeConfigNeverProcessed ==
    ConfigOutOfRange => Processed = {}

\* C20: for every annual output figure, the 12 values of the monthly split
\* sum to the annual figure within 1e-6 kWh.
AskedSplit == call.fn = "calculate_monthly_solar"

Abs(x) == IF x < 0 THEN 0 - x ELSE x

\* How far the 12 values are from the annual figure, in units of 1e-4 kWh
SplitOff == Abs(SumOver(1..12, result) - call.kwh)

MonthlySplitSumsToAnnual ==
    AskedSplit => SplitOff * 1000000 <= kWh

\* C20 as the code has it: twelve roundings to 4 decimal places, each off by
\* at most 0.5e-4 kWh, leave the sum within 6e-4 kWh of the annual figure;
\* the sum is the annual figure when that is a whole number of tenths of a
\* kWh, every product then having at most 4 decimal places.
MonthlySplitSumsWithinRounding ==
    AskedSplit =>
        /\ SplitOff * 10000 <= 6 * kWh
        /\ call.kwh % (kWh \div 10) = 0 => SplitOff = 0

\* C20 witness: an annual figure whose split is off by more than 1e-6 kWh.
MonthlySplitOff ==
    /\ AskedSplit
    /\ SplitOff * 1000000 > kWh
    /\ call.kwh > kWh

\* C21: for a given month the generation curve is computed on the first
\* in-window request and never changed afterwards, and the slot values
\* returned for a day of that month sum to monthly_split[month] /
\* days_in_month of the queried year and month, whatever was asked before.
\* (The curve of the model is cut to whole units of 1e-4 kWh slot by slot, so
\* its sum may fall short of the daily figure by one unit per slot.)
AskedSolar == call.fn = "calculate_30min_solar"

DailySolarAsked ==
    monthly_solar[call.month] \div DaysInMonth(call.year, call.month)

CurveKeptOnceComputed ==
    [][\A m \in DOMAIN curves : m \in DOMAIN curves' /\ curves'[m] = curves[m]]_vars

CurveSumsToDailyShareOfQueriedMonth ==
    (AskedSolar /\ call.month \in DOMAIN curves) =>
        Abs(SumSeq(curves[call.month]) - DailySolarAsked)
            <= Len(curves[call.month]) + 1

\* C22: in a non-charging interval with outstanding demand d > 0 after solar
\* and discharge permitted, the battery is discharged by exactly
\* min(d, charge - battery_min, max drain), and the grid draw costed at the
\* flux band rate and the agile rate is exactly d minus that discharge.
DayFluxCost ==
    IF DateOf(NextStart) = last_date THEN DictGet(costs, last_date).flux_cost
    ELSE 0

DischargeStep ==
    /\ pc = "usage"
    /\ ui < Len(usage_data)
    /\ ui' = ui + 1
    /\ ~need_to_charge_battery(DateOf(NextStart).month,
                               HourOf(NextStart) * 60 + MinuteOf(NextStart),
                               current_battery, agile_rates[NextStart])
    /\ NextUsage - NextSolar > 0
    /\ are_we_using_the_battery(DateOf(NextStart).month, HourOf(NextStart),
                                MinuteOf(NextStart))

DischargeEffect ==
    LET t         == NextStart
        d         == NextUsage - NextSolar
        discharge == Min(d, Min(current_battery - cfg.battery_min,
                                max_battery_drain))
        grid      == d - discharge
    IN  /\ current_battery' = current_battery - discharge
        /\ grid_usage'[t].consumption = grid
        /\ grid_consumption' = grid_consumption + grid
        /\ grid_usage'[t].agile_cost = grid * agile_rates[t]
        /\ DictGet(costs', DateOf(t)).agile_cost
              = DayAgileCost + grid * agile_rates[t]
        /\ DictGet(costs', DateOf(t)).flux_cost
              = DayFluxCost + grid * BandRate(t)

DischargeIsMinOfDemandChargeAndDrain ==
    [][DischargeStep => DischargeEffect]_vars

\* C22 witness: one run with a discharge stopped by the drain limit and a
\* discharge that took the battery down to battery_min, the grid supplying
\* the rest of the demand each time.
Permitted(t) == are_we_using_the_battery(DateOf(t).month, HourOf(t), MinuteOf(t))

Demand(t) == grid_usage[t].usage - grid_usage[t].solar_generation

DischargedEveryWay ==
    /\ \E t \in Processed :
          /\ branch_taken[t] = "solar" /\ Permitted(t)
          /\ Demand(t) > max_battery_drain
          /\ BatteryBefore(t) - cfg.battery_min > max_battery_drain
          /\ BatteryAfter(t) = BatteryBefore(t) - max_battery_drain
          /\ grid_usage[t].consumption = Demand(t) - max_battery_drain
    /\ \E t \in Processed :
          /\ branch_taken[t] = "solar" /\ Permitted(t)
          /\ Demand(t) > 0
          /\ BatteryBefore(t) - cfg.battery_min < Demand(t)
          /\ BatteryBefore(t) > cfg.battery_min
          /\ BatteryAfter(t) = cfg.battery_min
          /\ grid_usage[t].consumption
                = Demand(t) - (BatteryBefore(t) - cfg.battery_min)

\* C23: for chronologically ordered rates, each of the three band
\* accumulators of a date goes from accumulating to finalised at most once,
\* exactly at its boundary minute (low at 05:30, peak at 18:30, day at
\* 23:30), and no rate is added to it after it has been finalised.
Accumulator(f) ==
    CASE f.band = "low"  -> flux_period_averages[f.date]
      [] f.band = "peak" -> agile_peak_averages[f.date]
      [] f.band = "day"  -> agile_daily_averages[f.date]

BoundaryOf(band) ==
    CASE band = "low"  -> <<5, 30>>
      [] band = "peak" -> <<18, 30>>
      [] band = "day"  -> <<23, 30>>

RateStart == Reversed(rate_data)[ri + 1].start

FinalisedOnceAtBoundary ==
    [][/\ \A f \in finalised :
             /\ f.date \in DOMAIN flux_period_averages'
             /\ Accumulator(f)' = Accumulator(f)
       /\ \A f \in finalised' \ finalised :
             /\ ri' = ri + 1
             /\ DateOf(RateStart) = f.date
             /\ <<HourOf(RateStart), MinuteOf(RateStart)>> = BoundaryOf(f.band)
             /\ Accumulator(f)' # Accumulator(f)]_vars

\* C23 witness: a date with its three accumulators finalised, the rates of
\* the next date being added to that date's accumulators.
DateFinalisedAndNextBegun ==
    \E date \in DOMAIN flux_period_averages :
        /\ {[date |-> date, band |-> b] : b \in {"low", "peak", "day"}}
              \subseteq finalised
        /\ last_date = NextDate(date)
        /\ agile_daily_averages[last_date].n # 0
        /\ pc = "rates"

\* C24: the average reported for a band in the low/day/peak summary is the
\* mean, over the dates whose band was finalised, of that date's finalised
\* band average; also when the first or the last date of the run does not
\* reach the band's boundary minute.
RECURSIVE FracSumOver(_, _)
FracSumOver(S, f) ==
    IF S = {} THEN Zero
    ELSE LET x == CHOOSE y \in S : TRUE
         IN  FracAdd(f[x], FracSumOver(S \ {x}, f))

FinalisedDates(band) == {f.date : f \in {g \in finalised : g.band = band}}

MeanOfFinalised(band, averages) ==
    FracDiv(FracSumOver(FinalisedDates(band), averages),
            Cardinality(FinalisedDates(band)))

SummaryPrinted == "periods" \in printed

SummaryIsMeanOfFinalisedAverages ==
    SummaryPrinted =>
        /\ FinalisedDates("low") # {} =>
              FracEq(summary.low, MeanOfFinalised("low", flux_period_averages))
        /\ FinalisedDates("peak") # {} =>
              FracEq(summary.peak, MeanOfFinalised("peak", agile_peak_averages))
        /\ FinalisedDates("day") # {} =>
              FracEq(summary.day, MeanOfFinalised("day", agile_daily_averages))

\* C25: for every from < to and every tariff switch date, the import-rate
\* requests cover [from, to) exactly once, with no overlap and no gap: the
\* post-switch tariff is requested for [max(from, switch), to) only when
\* to >= switch, and the pre-switch tariff for [from, min(to, switch)) only
\* when from < switch.
AskedRequests == call.fn = "RateRequests"

RequestsFor(url) == {i \in 1..Len(result) : result[i].url = url}

Covering(t) ==
    {i \in 1..Len(result) : result[i].period_from <= t /\ t < result[i].period_to}

RequestedRange(url) ==
    LET i == CHOOSE j \in RequestsFor(url) : TRUE
    IN  <<result[i].period_from, result[i].period_to>>

RequestsCoverRangeOnce ==
    AskedRequests =>
        /\ \A t \in call.from..(call.to - 1) : Cardinality(Covering(t)) = 1
        /\ \A t \in 0..MaxRequestSlot :
              t \notin call.from..(call.to - 1) => Covering(t) = {}
        /\ Cardinality(RequestsFor("agile_rate_url"))
              = IF call.to >= call.switch THEN 1 ELSE 0
        /\ Cardinality(RequestsFor("agile_rate2_url"))
              = IF call.from < call.switch THEN 1 ELSE 0
        /\ call.to >= call.switch =>
              RequestedRange("agile_rate_url")
                  = <<Max(call.from, call.switch), call.to>>
        /\ call.from < call.switch =>
              RequestedRange("agile_rate2_url")
                  = <<call.from, Min(call.to, call.switch)>>

\* C25 witness: a range with the switch date strictly inside it, asked for in
\* two requests that meet at the switch date.
RangeSplitAtSwitch ==
    /\ AskedRequests
    /\ call.from < call.switch /\ call.switch < call.to
    /\ Len(result) = 2
    /\ result[1].period_from = call.switch
    /\ result[2].period_to = call.switch

\* C26: in every interval where grid charging does not apply, the grid draw
\* never exceeds the interval's consumption, and the battery charge increases
\* only when solar generation is at least the consumption. (Stated for the
\* configurations whose numbers are in range.)
NoGridEnergyIntoBattery ==
    ~ConfigOutOfRange =>
        \A t \in Processed :
            branch_taken[t] = "solar" =>
                /\ grid_usage[t].consumption <= grid_usage[t].usage
                /\ BatteryRise(t) > 0 =>
                      grid_usage[t].solar_generation >= grid_usage[t].usage

\* C27: in every interval the solar energy generated is fully accounted for:
\* solar generated = solar used to meet the interval's consumption + solar
\* stored in the battery + solar exported, in the grid-charging branch as well
\* as in the non-charging branch. Read off the ledger: the grid draw beyond
\* the interval's consumption went into the battery, the rest of a battery
\* rise is stored solar, and the consumption met neither by the grid nor by
\* a battery fall is solar used. (Stated for the configurations whose
\* numbers are in range.)
GridIntoBattery(t) == Max(0, grid_usage[t].consumption - grid_usage[t].usage)

SolarStored(t) == Max(0, BatteryRise(t) - GridIntoBattery(t))

SolarUsed(t) ==
    Max(0, grid_usage[t].usage - grid_usage[t].consumption
              - Max(0, 0 - BatteryRise(t)))

SolarAccounted(t) ==
    grid_usage[t].solar_generation
        = SolarUsed(t) + SolarStored(t) + grid_usage[t].solar_export

SolarFullyAccounted ==
    ~ConfigOutOfRange => \A t \in Processed : SolarAccounted(t)

\* C28: after any prefix of the interval sequence, each date's agile_cost
\* accumulator equals the sum of the ledger agile_cost of that date's
\* processed intervals, and each ledger entry's agile_cost equals its grid
\* draw x agile import rate minus its solar export x agile export rate.
LedgerAgileCost(t) ==
    grid_usage[t].consumption * grid_usage[t].agile_rate
        - grid_usage[t].solar_export * grid_usage[t].agile_export_rate

AgileCostIsLedgerSum ==
    /\ \A t \in Processed : grid_usage[t].agile_cost = LedgerAgileCost(t)
    /\ \A i \in 1..Len(costs) :
          costs[i].v.agile_cost =
              SumOver(IntervalsOf(costs[i].k),
                      [t \in Processed |-> grid_usage[t].agile_cost])

AgileCostOfTwoDatesFromEveryBranch ==
    /\ Len(costs) >= 2
    /\ \A i \in 1..Len(costs) : IntervalsOf(costs[i].k) # {}
    /\ \E t \in Processed :
          branch_taken[t] = "charge" /\ grid_usage[t].agile_cost # 0
    /\ \E t \in Processed :
          /\ grid_usage[t].solar_export > 0
          /\ grid_usage[t].agile_export_rate # grid_usage[t].agile_rate
    /\ \E t \in Processed :
          branch_taken[t] = "solar" /\ grid_usage[t].consumption > 0

\* C29: for every sequence of HTTP response statuses, retrieving one page
\* takes at most 5 requests: it either proceeds with a status-200 response or
\* raises an error after the fifth non-200 response; and when the cache file
\* exists no request is made at all.
Retrieving == call.fn = "retrieve_paginated_data"

AtMostFiveRequests ==
    Retrieving =>
        /\ Len(result.responses) <= 5
        /\ (Len(result.responses) = 5 /\ result.responses[5] # 200)
              => result.at = "HTTPError"
        /\ result.at = "proceeds"
              => result.responses[Len(result.responses)] = 200
        /\ call.cached => result.responses = << >>

============================================================================
